---- MODULE Spec2Model ----
(***************************************************************************)
(* A model of scripts/fetch_macro.py: the dataset resolver, the series     *)
(* builder, the derived series and the run orchestrator (run_fetch).       *)
(*                                                                         *)
(* A Python str is a tuple of one-character strings, so that lower(),      *)
(* strip(), "in", re.search, re.split, len() and string comparison are     *)
(* computed character by character.  Python's None is the value None.      *)
(* A dict is a function whose domain is its key set.                       *)
(***************************************************************************)
EXTENDS Integers, Sequences, FiniteSets, TLC

\* ------------------------------------------------------------------ bounds

\* How many of the modelled intents run_fetch loops over.
NumIntents == 3
\* The longest series (in points) derive_moving_average is applied to in
\* SpecAverage.
MaxPoints == 4
\* The most columns and the most hints choose_column is applied to in
\* SpecChoose.
MaxColumns == 3
MaxHints == 2
\* The longest table (in rows) parse_series is applied to in SpecParse.
MaxRows == 3

\* ------------------------------------------------------------------ text

Chars(s) == [k \in 1..Len(s) |-> SubSeq(s, k, k)]

None == <<"None">>
\* pandas' NaN / NaT, the missing cell.
NaN == <<"NaN">>

\* Printable ASCII without the double quote (34), the backslash (92) and the
\* backtick (96).
AsciiLow == Chars(" !")
AsciiMid == Chars("#$%&'()*+,-./0123456789:;<=>?@ABCDEFGHIJKLMNOPQRSTUVWXYZ[")
AsciiHigh == Chars("]^_")
AsciiLetters == Chars("abcdefghijklmnopqrstuvwxyz{|}~")

\* ord(c)
CodeOf ==
    [c \in {AsciiLow[k] : k \in 1..Len(AsciiLow)}
           \cup {AsciiMid[k] : k \in 1..Len(AsciiMid)}
           \cup {AsciiHigh[k] : k \in 1..Len(AsciiHigh)}
           \cup {AsciiLetters[k] : k \in 1..Len(AsciiLetters)} |->
        IF \E k \in 1..Len(AsciiLow) : AsciiLow[k] = c
        THEN 31 + (CHOOSE k \in 1..Len(AsciiLow) : AsciiLow[k] = c)
        ELSE IF \E k \in 1..Len(AsciiMid) : AsciiMid[k] = c
        THEN 34 + (CHOOSE k \in 1..Len(AsciiMid) : AsciiMid[k] = c)
        ELSE IF \E k \in 1..Len(AsciiHigh) : AsciiHigh[k] = c
        THEN 92 + (CHOOSE k \in 1..Len(AsciiHigh) : AsciiHigh[k] = c)
        ELSE 96 + (CHOOSE k \in 1..Len(AsciiLetters) : AsciiLetters[k] = c)]

\* chr(n), for the codes of CodeOf
CharOf(n) == CHOOSE c \in DOMAIN CodeOf : CodeOf[c] = n

IsDigit(c) == CodeOf[c] \in 48..57
IsUpper(c) == CodeOf[c] \in 65..90
IsAlpha(c) == CodeOf[c] \in (65..90) \cup (97..122)
\* \w of the re module, on ASCII text
IsWord(c) == IsDigit(c) \/ IsAlpha(c) \/ c = "_"
IsSpace(c) == c = " "

\* str.lower()
LowerChar(c) == IF IsUpper(c) THEN CharOf(CodeOf[c] + 32) ELSE c
Lower(s) == [k \in 1..Len(s) |-> LowerChar(s[k])]

\* str.strip()
Strip(s) ==
    LET keep == {k \in 1..Len(s) : ~IsSpace(s[k])}
    IN  IF keep = {} THEN <<>>
        ELSE SubSeq(s, CHOOSE a \in keep : \A b \in keep : a <= b,
                       CHOOSE a \in keep : \A b \in keep : a >= b)

\* sub in s
Contains(sub, s) ==
    \E k \in 0..(Len(s) - Len(sub)) : SubSeq(s, k + 1, k + Len(sub)) = sub

\* s.endswith(suffix)
EndsWith(s, suffix) ==
    /\ Len(suffix) <= Len(s)
    /\ SubSeq(s, Len(s) - Len(suffix) + 1, Len(s)) = suffix

\* a < b for str: lexicographic by code point, a proper prefix first
RECURSIVE StrLess(_, _)
StrLess(a, b) ==
    IF b = <<>> THEN FALSE
    ELSE IF a = <<>> THEN TRUE
    ELSE IF a[1] # b[1] THEN CodeOf[a[1]] < CodeOf[b[1]]
    ELSE StrLess(Tail(a), Tail(b))

\* int(s) for a string of decimal digits
RECURSIVE ParseInt(_)
ParseInt(s) ==
    IF s = <<>> THEN 0
    ELSE 10 * ParseInt(SubSeq(s, 1, Len(s) - 1)) + (CodeOf[s[Len(s)]] - 48)

\* str(n) for n >= 0
RECURSIVE IntStr(_)
IntStr(n) ==
    IF n < 10 THEN <<CharOf(48 + n)>>
    ELSE IntStr(n \div 10) \o <<CharOf(48 + (n % 10))>>

\* f"{n:0{width}d}"
RECURSIVE ZeroPad(_, _)
ZeroPad(s, width) == IF Len(s) >= width THEN s ELSE ZeroPad(<<"0">> \o s, width)

\* re.split(r"\W+", s): the maximal runs of word characters, in order (the
\* empty strings re.split adds at the ends are dropped by every caller's
\* len(t) > 2 filter).
RECURSIVE WordRuns(_, _)
WordRuns(s, cur) ==
    IF s = <<>> THEN (IF cur = <<>> THEN <<>> ELSE <<cur>>)
    ELSE IF IsWord(s[1]) THEN WordRuns(Tail(s), Append(cur, s[1]))
    ELSE (IF cur = <<>> THEN <<>> ELSE <<cur>>) \o WordRuns(Tail(s), <<>>)

\* sum of a tuple of numbers
RECURSIVE Sum(_)
Sum(xs) == IF xs = <<>> THEN 0 ELSE xs[1] + Sum(Tail(xs))

\* [x for x in xs if x in keep]
RECURSIVE Filter(_, _)
Filter(xs, keep) ==
    IF xs = <<>> THEN <<>>
    ELSE (IF xs[1] \in keep THEN <<xs[1]>> ELSE <<>>) \o Filter(Tail(xs), keep)

\* d[k] = v on a dict
Put(d, k, v) == [x \in DOMAIN d \cup {k} |-> IF x = k THEN v ELSE d[x]]

\* ------------------------------------------------------------------ errors

\* truncate_error's default limit
Limit == 220

\* truncate_error(text): the text, or its first `limit` characters and "..."
truncate_error(text) ==
    IF Len(text) <= Limit THEN text ELSE SubSeq(text, 1, Limit) \o Chars("...")

\* ------------------------------------------------------------------ intents

\* A missing dict (no package, no resource, no derived series).
NoneRec == [none |-> TRUE]

\* v or ""
OrEmpty(v) == IF v = None THEN <<>> ELSE v

\* The configured intents the derived series read, in the order of
\* SERIES_INTENTS; none of them has filters.
Intent_sgs_yield_2y ==
    [id |-> "sgs_yield_2y", display_name |-> "SGS Yield 2Y",
     frequency |-> "daily", unit |-> "%",
     candidate_queries |-> <<Chars("SGS yield 2-year"),
                             Chars("Singapore government securities yield"),
                             Chars("MAS SGS yield")>>,
     preferred_date_columns |-> <<Chars("date"), Chars("month"), Chars("period")>>,
     preferred_value_columns |-> <<Chars("2-year"), Chars("2 year"), Chars("2y"),
                                   Chars("yield_2y"), Chars("value")>>,
     filters |-> None]

Intent_sgs_yield_1y ==
    [id |-> "sgs_yield_1y", display_name |-> "T-bill / SGS Yield 1Y",
     frequency |-> "daily", unit |-> "%",
     candidate_queries |-> <<Chars("SGS yield 1-year"),
                             Chars("T-bill yield singapore"),
                             Chars("MAS treasury bill")>>,
     preferred_date_columns |-> <<Chars("date"), Chars("month"), Chars("period")>>,
     preferred_value_columns |-> <<Chars("1-year"), Chars("1 year"), Chars("1y"),
                                   Chars("yield_1y"), Chars("value")>>,
     filters |-> None]

Intent_sgs_yield_10y ==
    [id |-> "sgs_yield_10y", display_name |-> "SGS Yield 10Y",
     frequency |-> "daily", unit |-> "%",
     candidate_queries |-> <<Chars("SGS yield 10-year"),
                             Chars("Singapore government bond yield 10y"),
                             Chars("MAS SGS yield")>>,
     preferred_date_columns |-> <<Chars("date"), Chars("month"), Chars("period")>>,
     preferred_value_columns |-> <<Chars("10-year"), Chars("10 year"), Chars("10y"),
                                   Chars("yield_10y"), Chars("value")>>,
     filters |-> None]

Intent_private_resi_transactions ==
    [id |-> "private_resi_transactions",
     display_name |-> "Private Residential Transactions",
     frequency |-> "quarterly", unit |-> "transactions",
     candidate_queries |-> <<Chars("private residential transactions singapore"),
                             Chars("URA private residential sales transactions")>>,
     preferred_date_columns |-> <<Chars("quarter"), Chars("period"), Chars("date")>>,
     preferred_value_columns |-> <<Chars("transactions"), Chars("no. of transactions"),
                                   Chars("volume"), Chars("value")>>,
     filters |-> None]

Intent_dev_sales_uncompleted_sold ==
    [id |-> "dev_sales_uncompleted_sold",
     display_name |-> "Uncompleted Private Residential Units Sold by Developers",
     frequency |-> "quarterly", unit |-> "units",
     candidate_queries |-> <<Chars("uncompleted private residential units sold developers"),
                             Chars("developers sales uncompleted units singapore")>>,
     preferred_date_columns |-> <<Chars("quarter"), Chars("period"), Chars("date")>>,
     preferred_value_columns |-> <<Chars("uncompleted"), Chars("units sold"),
                                   Chars("sold"), Chars("value")>>,
     filters |-> None]

ModelledIntents ==
    <<Intent_sgs_yield_2y, Intent_sgs_yield_10y,
      Intent_private_resi_transactions, Intent_dev_sales_uncompleted_sold>>

\* The list run_fetch loops over.
SERIES_INTENTS ==
    SubSeq(ModelledIntents, 1,
           IF NumIntents <= Len(ModelledIntents) THEN NumIntents ELSE Len(ModelledIntents))

IntentIds == {SERIES_INTENTS[k].id : k \in 1..Len(SERIES_INTENTS)}

\* ------------------------------------------------------------------ resolver

\* The organisation names score_package rewards.
Authorities ==
    <<Chars("monetary authority"), Chars("mas"), Chars("urban redevelopment"),
      Chars("ura"), Chars("singstat"), Chars("bca")>>

\* score_package(pkg, query).  A package is [title, org_title,
\* metadata_modified, resources]; org_title is (pkg["organization"] or
\* {}).get("title") and resources is pkg.get("resources") or [].
score_package(pkg, query) ==
    LET title == Lower(OrEmpty(pkg.title))
        org == Lower(OrEmpty(pkg.org_title))
        q == Lower(query)
        runs == WordRuns(q, <<>>)
        tokens == Filter(runs, {t \in {runs[k] : k \in 1..Len(runs)} : Len(t) > 2})
    IN  (IF q = title THEN 30 ELSE 0)
        + (IF Contains(q, title) THEN 20 ELSE 0)
        + Sum([k \in 1..Len(tokens) |-> IF Contains(tokens[k], title) THEN 2 ELSE 0])
        + (IF \E k \in 1..Len(Authorities) : Contains(Authorities[k], org)
           THEN 8 ELSE 0)
        + (IF OrEmpty(pkg.metadata_modified) # <<>> THEN 5 ELSE 0)

\* A resource is [format, url]; the test of the csv_resources comprehension.
IsCsv(r) ==
    \/ Lower(OrEmpty(r.format)) = Chars("csv")
    \/ EndsWith(Lower(OrEmpty(r.url)), Chars(".csv"))

\* The CSV resources of a list of resources, in order.
RECURSIVE CsvOf(_)
CsvOf(resources) ==
    IF resources = <<>> THEN <<>>
    ELSE (IF IsCsv(resources[1]) THEN <<resources[1]>> ELSE <<>>)
         \o CsvOf(Tail(resources))

csv_resources(pkg) == CsvOf(pkg.resources)

\* best_score = -1.0
InitialBestScore == -1

better_or_equal(score, best_score) == score >= best_score

\* score > best_score
better(score, best_score) == score > best_score

\* The loop over the packages of one successful search; best is
\* [pkg, res, score].
RECURSIVE ScanPackages(_, _, _)
ScanPackages(packages, query, best) ==
    IF packages = <<>> THEN best
    ELSE LET pkg == packages[1]
             csv == csv_resources(pkg)
             score == score_package(pkg, query)
         IN  IF csv = <<>> THEN ScanPackages(Tail(packages), query, best)
             ELSE IF better(score, best.score)
             THEN ScanPackages(Tail(packages), query,
                               [pkg |-> pkg, res |-> csv[1], score |-> score])
             ELSE ScanPackages(Tail(packages), query, best)

\* ------------------------------------------------------------------ periods

\* 1 + the last index of raw when no digit follows
FirstDigitFrom(raw, j) ==
    LET ds == {k \in j..Len(raw) : IsDigit(raw[k])}
    IN  IF ds = {} THEN Len(raw) + 1 ELSE CHOOSE a \in ds : \A b \in ds : a <= b

FourDigitsAt_bounded(raw, i) ==
    /\ i + 3 <= Len(raw) /\ \A k \in i..(i + 3) : IsDigit(raw[k])
    /\ (i = 1 \/ ~IsDigit(raw[i - 1]))

\* Whether \d{4} matches at i.
FourDigitsAt(raw, i) ==
    i + 3 <= Len(raw) /\ \A k \in i..(i + 3) : IsDigit(raw[k])

IsQ(c) == c = "Q" \/ c = "q"
IsQuarterDigit(c) == c \in {"1", "2", "3", "4"}

\* Whether (\d{4})\D*Q([1-4]) matches at i: after the four digits, the run
\* of non-digits is not empty, ends with Q and is followed by 1..4.
QuarterAt(raw, i) ==
    /\ FourDigitsAt(raw, i)
    /\ LET e == FirstDigitFrom(raw, i + 4)
       IN  e <= Len(raw) /\ e > i + 4 /\ IsQ(raw[e - 1]) /\ IsQuarterDigit(raw[e])

\* Whether (\d{4})\D*([1-4])Q matches at i.
AltQuarterAt(raw, i) ==
    /\ FourDigitsAt(raw, i)
    /\ LET e == FirstDigitFrom(raw, i + 4)
       IN  e + 1 <= Len(raw) /\ IsQuarterDigit(raw[e]) /\ IsQ(raw[e + 1])

\* Whether \b(\d{4})\b matches at i.
YearTokenAt(raw, i) ==
    /\ FourDigitsAt(raw, i)
    /\ (i = 1 \/ ~IsWord(raw[i - 1]))
    /\ (i + 4 > Len(raw) \/ ~IsWord(raw[i + 4]))

\* re.search: the leftmost index at which At holds, 0 when there is none
Leftmost(raw, At(_, _)) ==
    LET hits == {i \in 1..Len(raw) : At(raw, i)}
    IN  IF hits = {} THEN 0 ELSE CHOOSE a \in hits : \A b \in hits : a <= b

\* pandas' NaT
NaT == [nat |-> TRUE]

IsLeap(y) == (y % 4 = 0 /\ y % 100 # 0) \/ y % 400 = 0
DaysIn(y, m) ==
    IF m = 2 THEN (IF IsLeap(y) THEN 29 ELSE 28)
    ELSE IF m \in {4, 6, 9, 11} THEN 30 ELSE 31

\* pd.to_datetime(raw, errors="coerce") on the texts of the model's tables:
\* the ISO forms YYYY, YYYY-MM and YYYY-MM-DD parse (a missing month or day
\* is 1), an impossible date and any other text of the tables is NaT.
to_datetime(raw) ==
    LET digitsAt(a, b) == b <= Len(raw) /\ \A k \in a..b : IsDigit(raw[k])
        y == ParseInt(SubSeq(raw, 1, 4))
        m == ParseInt(SubSeq(raw, 6, 7))
        d == ParseInt(SubSeq(raw, 9, 10))
    IN  IF Len(raw) = 4 /\ digitsAt(1, 4) /\ y >= 1
        THEN [year |-> y, month |-> 1, day |-> 1]
        ELSE IF Len(raw) = 7 /\ digitsAt(1, 4) /\ raw[5] = "-" /\ digitsAt(6, 7)
                /\ y >= 1 /\ m \in 1..12
        THEN [year |-> y, month |-> m, day |-> 1]
        ELSE IF Len(raw) = 10 /\ digitsAt(1, 4) /\ raw[5] = "-" /\ digitsAt(6, 7)
                /\ raw[8] = "-" /\ digitsAt(9, 10)
                /\ y >= 1 /\ m \in 1..12 /\ d \in 1..DaysIn(y, m)
        THEN [year |-> y, month |-> m, day |-> d]
        ELSE NaT

\* normalize_period(value, frequency): the canonical period, or None.  A
\* cell is its text, or NaN when the cell is missing.
normalize_period(value, frequency) ==
    IF value = NaN THEN None
    ELSE LET raw == Strip(value)
             qm == Leftmost(raw, QuarterAt)
             am == Leftmost(raw, AltQuarterAt)
             ym == Leftmost(raw, YearTokenAt)
             dt == to_datetime(raw)
         IN  IF raw = <<>> THEN None
             ELSE IF qm # 0
             THEN SubSeq(raw, qm, qm + 3) \o Chars("-Q")
                  \o <<raw[FirstDigitFrom(raw, qm + 4)]>>
             ELSE IF am # 0
             THEN SubSeq(raw, am, am + 3) \o Chars("-Q")
                  \o <<raw[FirstDigitFrom(raw, am + 4)]>>
             ELSE IF frequency = "quarterly"
             THEN (IF dt # NaT
                   THEN IntStr(dt.year) \o Chars("-Q")
                        \o IntStr(((dt.month - 1) \div 3) + 1)
                   ELSE IF ym # 0 THEN SubSeq(raw, ym, ym + 3) \o Chars("-Q1")
                   ELSE None)
             ELSE IF dt = NaT THEN None
             ELSE IF frequency = "monthly"
             THEN ZeroPad(IntStr(dt.year), 4) \o Chars("-")
                  \o ZeroPad(IntStr(dt.month), 2) \o Chars("-01")
             ELSE ZeroPad(IntStr(dt.year), 4) \o Chars("-")
                  \o ZeroPad(IntStr(dt.month), 2) \o Chars("-")
                  \o ZeroPad(IntStr(dt.day), 2)

\* ------------------------------------------------------------------ columns

LastColumnWith(columns, cand) ==
    LET hits == {k \in 1..Len(columns) :
                    Strip(Lower(columns[k])) = cand
                    \/ Contains(cand, Strip(Lower(columns[k])))}
    IN  IF hits = {} THEN None
        ELSE columns[CHOOSE a \in hits : \A b \in hits : a >= b]

\* The first column whose lowered, stripped name equals or contains cand, or
\* None.  (The dict `normalized` keeps the columns in their order, one key per
\* name, so its first match is the list's first match.)
FirstColumnWith(columns, cand) ==
    LET low(c) == Strip(Lower(c))
        hits == {k \in 1..Len(columns) :
                    low(columns[k]) = cand \/ Contains(cand, low(columns[k]))}
    IN  IF hits = {} THEN None
        ELSE columns[CHOOSE a \in hits : \A b \in hits : a <= b]

\* choose_column(columns, candidates)
RECURSIVE choose_column(_, _)
choose_column(columns, candidates) ==
    IF candidates = <<>> THEN None
    ELSE LET hit == FirstColumnWith(columns, Strip(Lower(candidates[1])))
         IN  IF hit # None THEN hit ELSE choose_column(columns, Tail(candidates))

\* The truth value of a column name or None.
Truthy(name) == name # None /\ name # <<>>

DateHeuristics ==
    <<Chars("date"), Chars("month"), Chars("quarter"), Chars("period"),
      Chars("year"), Chars("time")>>

\* find_date_column(df, intent)
find_date_column(df, intent) ==
    LET direct == choose_column(df.columns, intent.preferred_date_columns)
    IN  IF Truthy(direct) THEN direct ELSE choose_column(df.columns, DateHeuristics)

\* pd.to_numeric(cell, errors="coerce"): <<n>> for the text of an unsigned
\* integer, <<>> (NaN) for a missing cell and for any other text of the
\* model's tables.
to_numeric(cell) ==
    IF cell = NaN THEN <<>>
    ELSE LET raw == Strip(cell)
         IN  IF raw # <<>> /\ \A k \in 1..Len(raw) : IsDigit(raw[k])
             THEN <<ParseInt(raw)>> ELSE <<>>

\* The index of the column called name (the first of that name).
ColumnIndex(df, name) ==
    CHOOSE a \in 1..Len(df.columns) :
        /\ df.columns[a] = name
        /\ \A b \in 1..Len(df.columns) : df.columns[b] = name => a <= b

\* df[name] as a list of cells
Column(df, name) == [r \in 1..Len(df.rows) |-> df.rows[r][ColumnIndex(df, name)]]

\* find_value_column(df, intent): a preferred column, else the column with
\* the most numeric cells (the first of them, the sort being stable), else
\* None.
find_value_column(df, intent) ==
    LET preferred == choose_column(df.columns, intent.preferred_value_columns)
        non_null(k) == Cardinality({r \in 1..Len(df.rows) :
                                      to_numeric(df.rows[r][k]) # <<>>})
        numeric_cols == {k \in 1..Len(df.columns) : non_null(k) > 0}
    IN  IF Truthy(preferred) THEN preferred
        ELSE IF numeric_cols = {} THEN None
        ELSE df.columns[CHOOSE a \in numeric_cols :
                            \A b \in numeric_cols :
                                \/ non_null(a) > non_null(b)
                                \/ (non_null(a) = non_null(b) /\ a <= b)]

\* apply_filters(df, filters) for filters = None, which every configured
\* intent has.
apply_filters(df, filters) == df

\* df.empty
IsEmptyTable(df) == df.rows = <<>> \/ df.columns = <<>>

\* ------------------------------------------------------------------ series

\* sorted(periods): the periods of a set, ascending
RECURSIVE SortedPeriods(_)
SortedPeriods(ps) ==
    IF ps = {} THEN <<>>
    ELSE LET least == CHOOSE a \in ps : \A b \in ps : a = b \/ StrLess(a, b)
         IN  <<least>> \o SortedPeriods(ps \ {least})

\* The periods of a list of rows in the order of their first appearance.
RECURSIVE FirstSeenPeriods(_, _)
FirstSeenPeriods(rows, seen) ==
    IF rows = <<>> THEN <<>>
    ELSE IF rows[1].period \in seen THEN FirstSeenPeriods(Tail(rows), seen)
    ELSE <<rows[1].period>> \o FirstSeenPeriods(Tail(rows), seen \cup {rows[1].period})

group_order_unsorted(rows) == FirstSeenPeriods(rows, {})

\* The order of the groups: groupby sorts its keys, and sort_values("period")
\* sorts the frame again.
group_order(rows) == SortedPeriods({rows[k].period : k \in 1..Len(rows)})

group_first(rows, p) ==
    LET ks == {k \in 1..Len(rows) : rows[k].period = p}
    IN  rows[CHOOSE a \in ks : \A b \in ks : a <= b].value

\* .last() of one group: its last row in row order (no value is missing
\* after dropna).
group_last(rows, p) ==
    LET ks == {k \in 1..Len(rows) : rows[k].period = p}
    IN  rows[CHOOSE a \in ks : \A b \in ks : a >= b].value

\* dropna(subset=["period", "value"]) keeps the row
survives_dropna(period, value) == period # None /\ value # <<>>

\* The frame {"period": periods, "value": values} after dropna.
RECURSIVE DropNa(_, _)
DropNa(periods, values) ==
    IF periods = <<>> THEN <<>>
    ELSE (IF survives_dropna(periods[1], values[1])
          THEN <<[period |-> periods[1], value |-> values[1]]>> ELSE <<>>)
         \o DropNa(Tail(periods), Tail(values))

\* The list of points: one for each group, in the order of the groups.
points_in_order(result, order) ==
    [k \in 1..Len(order) |->
        [period |-> order[k], value |-> group_last(result, order[k])[1]]]

\* groupby("period").last().sort_values("period") and the list of points
\* built from it.
grouped_points(result) == points_in_order(result, group_order(result))

\* The points of a column of dates and a column of values: each cell
\* converted, the rows with a missing period or value dropped, the rest
\* grouped.
parse_cells(dates, cells, frequency) ==
    grouped_points(DropNa([r \in 1..Len(dates) |-> normalize_period(dates[r], frequency)],
                          [r \in 1..Len(cells) |-> to_numeric(cells[r])]))

\* parse_series once the date and the value column are chosen.
parse_columns(working, date_col, value_col, frequency) ==
    IF ~Truthy(date_col) \/ ~Truthy(value_col) THEN <<>>
    ELSE parse_cells(Column(working, date_col), Column(working, value_col), frequency)

\* parse_series on the filtered table.
parse_working(working, intent) ==
    IF IsEmptyTable(working) THEN <<>>
    ELSE parse_columns(working, find_date_column(working, intent),
                       find_value_column(working, intent), intent.frequency)

\* parse_series(df, intent): the points, a list of [period, value].
parse_series(df, intent) ==
    IF IsEmptyTable(df) THEN <<>>
    ELSE parse_working(apply_filters(df, intent.filters), intent)

\* build_empty_series(intent, note)
build_empty_series(intent, note) ==
    [display_name |-> intent.display_name,
     frequency |-> intent.frequency,
     unit |-> intent.unit,
     source |-> [name |-> "unavailable", dataset_title |-> <<>>, resource_url |-> <<>>],
     last_observation_period |-> None,
     data |-> <<>>,
     note |-> note]

\* ------------------------------------------------------------------ derived

\* series_map.get(id, {}).get("data", [])
DataOf(series_map, id) ==
    IF id \in DOMAIN series_map THEN series_map[id].data ELSE <<>>

\* {row["period"]: row["value"] for row in data}[p]: the last row of period p
MapValue(data, p) ==
    LET ks == {k \in 1..Len(data) : data[k].period = p}
    IN  data[CHOOSE a \in ks : \A b \in ks : a >= b].value

PeriodsOf(data) == {data[k].period : k \in 1..Len(data)}

slope_base_prefers_1y(two, one) == IF one # <<>> THEN one ELSE two

\* base = two if two else one
slope_base(two, one) == IF two # <<>> THEN two ELSE one

\* derive_curve_slope(series_map): the spread series, or NoneRec.
derive_curve_slope(series_map) ==
    LET ten == DataOf(series_map, "sgs_yield_10y")
        two == DataOf(series_map, "sgs_yield_2y")
        one == DataOf(series_map, "sgs_yield_1y")
        base == slope_base(two, one)
        base_name == IF two # <<>> THEN "2Y" ELSE IF one # <<>> THEN "1Y" ELSE "None"
        shared == SortedPeriods(PeriodsOf(ten) \cap PeriodsOf(base))
        data == [k \in 1..Len(shared) |->
                    [period |-> shared[k],
                     value |-> MapValue(ten, shared[k]) - MapValue(base, shared[k])]]
    IN  IF ten = <<>> \/ base = <<>> THEN NoneRec
        ELSE IF data = <<>> THEN NoneRec
        ELSE [display_name |-> "Yield Curve Slope (10Y-" \o base_name \o ")",
              frequency |-> "daily",
              unit |-> "percentage_points",
              source |-> [name |-> "derived",
                          dataset_title |-> Chars("Derived from fetched yields"),
                          resource_url |-> <<>>],
              last_observation_period |-> data[Len(data)].period,
              data |-> data]

RECURSIVE Gcd(_, _)
Gcd(a, b) == IF b = 0 THEN a ELSE Gcd(b, a % b)

Mean_unscaled(total, window) == [num |-> total, den |-> 1]

\* total / window as an exact fraction in lowest terms (the float of the code
\* without its rounding); total >= 0.
Mean(total, window) ==
    LET g == Gcd(total, window)
    IN  [num |-> total \div g, den |-> window \div g]

\* The window of the moving averages of run_fetch.
Window == 3

\* derive_moving_average(series_obj, window): the trailing average, or
\* NoneRec; series_obj is NoneRec for the {} of a missing series.
derive_moving_average(series_obj, window) ==
    LET src == IF series_obj = NoneRec THEN <<>> ELSE series_obj.data
        values == [k \in 1..Len(src) |-> src[k].value]
        periods == [k \in 1..Len(src) |-> src[k].period]
        ma_data == [k \in 1..(Len(src) - window + 1) |->
                       [period |-> periods[k + window - 1],
                        value |-> Mean(Sum(SubSeq(values, k, k + window - 1)), window)]]
    IN  IF Len(src) < window THEN NoneRec
        ELSE [display_name |-> series_obj.display_name \o " ("
                               \o ToString(window) \o "-period MA)",
              frequency |-> series_obj.frequency,
              unit |-> series_obj.unit,
              source |-> [name |-> "derived",
                          dataset_title |-> Chars("Moving average"),
                          resource_url |-> <<>>],
              last_observation_period |-> ma_data[Len(ma_data)].period,
              data |-> ma_data]

\* The (raw_id, derived_id) pairs of run_fetch's second loop.
MovingAverages ==
    <<[raw_id |-> "private_resi_transactions",
       derived_id |-> "private_resi_transactions_ma3"],
      [raw_id |-> "dev_sales_uncompleted_sold",
       derived_id |-> "dev_sales_uncompleted_sold_ma3"]>>

\* ------------------------------------------------------------------ run_fetch

\* The state of one call of run_fetch: where it is (pc, the intent index i,
\* the query index q), resolve_dataset's locals, the fetcher's source_status,
\* the two dicts it fills and, once built, the status payload.  searched is
\* the history of the current intent's catalog searches.
VARIABLES run
\* A second call of run_fetch, stepped together with the first in SpecIso,
\* and the index of the one intent whose outcomes may differ between them.
VARIABLES twin, varied
\* One call of parse_series alone: its table, its intent and its result.
VARIABLES call

vars == <<run, twin, varied, call>>

EmptyDict == [x \in {} |-> NoneRec]

\* MacroFetcher.__init__'s source_status
InitialSourceStatus ==
    [data_gov_sg |-> [ok |-> TRUE, error |-> <<>>],
     singstat |-> [ok |-> TRUE, error |-> <<>>]]

NoBest == [pkg |-> NoneRec, res |-> NoneRec, score |-> InitialBestScore]

\* (the best candidate of one intent survives into the next)
start_intent_keeps_best(s, i) ==
    [s EXCEPT !.i = i, !.q = 1, !.searched = <<>>,
              !.pc = IF i > Len(SERIES_INTENTS) THEN "slope"
                     ELSE IF SERIES_INTENTS[i].candidate_queries = <<>>
                     THEN "resolved" ELSE "search"]

\* The for statement of run_fetch reaching intent i (or the end of the
\* list), and resolve_dataset's first three assignments.
start_intent(s, i) ==
    [s EXCEPT !.i = i, !.q = 1, !.best = NoBest, !.searched = <<>>,
              !.pc = IF i > Len(SERIES_INTENTS) THEN "slope"
                     ELSE IF SERIES_INTENTS[i].candidate_queries = <<>>
                     THEN "resolved" ELSE "search"]

\* run_fetch up to its loop
Start ==
    start_intent([pc |-> "search", i |-> 1, q |-> 1, best |-> NoBest,
                  searched |-> <<>>,
                  source_status |-> InitialSourceStatus,
                  series_payload |-> EmptyDict,
                  series_status |-> EmptyDict,
                  status |-> NoneRec], 1)

CurIntent(s) == SERIES_INTENTS[s.i]
CurQuery(s) == CurIntent(s).candidate_queries[s.q]

\* The for statement of resolve_dataset: the next query, or the return.
next_query(s) ==
    IF s.q < Len(CurIntent(s).candidate_queries)
    THEN [s EXCEPT !.q = s.q + 1]
    ELSE [s EXCEPT !.pc = "resolved"]

\* (break in place of continue)
search_raises_stops(s, msg) ==
    [s EXCEPT
        !.source_status.data_gov_sg = [ok |-> FALSE, error |-> truncate_error(msg)],
        !.searched = Append(s.searched,
                            [query |-> CurQuery(s), raised |-> TRUE, packages |-> <<>>]),
        !.pc = "resolved"]

\* package_search raised: the except clause of resolve_dataset.
search_raises(s, msg) ==
    next_query([s EXCEPT
        !.source_status.data_gov_sg = [ok |-> FALSE, error |-> truncate_error(msg)],
        !.searched = Append(s.searched,
                            [query |-> CurQuery(s), raised |-> TRUE, packages |-> <<>>])])

\* (a search that succeeds marks the catalog reachable again)
search_returns_resets(s, packages) ==
    next_query([s EXCEPT
        !.source_status.data_gov_sg = [ok |-> TRUE, error |-> <<>>],
        !.best = ScanPackages(packages, CurQuery(s), s.best),
        !.searched = Append(s.searched,
                            [query |-> CurQuery(s), raised |-> FALSE,
                             packages |-> packages])])

\* package_search returned packages: the loop over them.
search_returns(s, packages) ==
    next_query([s EXCEPT
        !.best = ScanPackages(packages, CurQuery(s), s.best),
        !.searched = Append(s.searched,
                            [query |-> CurQuery(s), raised |-> FALSE,
                             packages |-> packages])])

\* The status of a series that has points.
OkStatus(last_period) == [ok |-> TRUE, last_period |-> last_period, error |-> <<>>]

FailedStatus(error) == [ok |-> FALSE, last_period |-> None, error |-> error]

\* Both dicts get the intent's entry, and the loop goes on to the next intent.
Record(s, series, status) ==
    start_intent([s EXCEPT
        !.series_payload = Put(s.series_payload, CurIntent(s).id, series),
        !.series_status = Put(s.series_status, CurIntent(s).id, status)], s.i + 1)

intent_no_match_silent(s) ==
    Record(s, build_empty_series(CurIntent(s), "No matching CSV dataset resource found"),
           FailedStatus(<<>>))

\* resolve_dataset returned no package or no resource.
intent_no_match(s) ==
    Record(s, build_empty_series(CurIntent(s), "No matching CSV dataset resource found"),
           FailedStatus(Chars("No dataset match")))

\* (an exception that is not caught ends run_fetch)
intent_failed_aborts(s, msg) == [s EXCEPT !.pc = "done"]

\* An exception reached run_fetch's except clause.
intent_failed(s, msg) ==
    Record(s, build_empty_series(CurIntent(s), "Fetch failed"),
           FailedStatus(truncate_error(msg)))

FoundSource_lost(s) ==
    [name |-> "unavailable", dataset_title |-> <<>>, resource_url |-> <<>>]

\* The "source" of a series read from a resolved resource.
FoundSource(s) ==
    [name |-> "data.gov.sg",
     dataset_title |-> OrEmpty(s.best.pkg.title),
     resource_url |-> OrEmpty(s.best.res.url)]

\* fetch_csv returned df: parse_series, then the series without points or
\* the full series.
series_of_points(s, intent, points) ==
    IF points = <<>>
    THEN Record(s, [build_empty_series(intent, "Resolved dataset but no parseable data points")
                        EXCEPT !.source = FoundSource(s)],
                FailedStatus(Chars("No parseable data points")))
    ELSE Record(s, [display_name |-> intent.display_name,
                    frequency |-> intent.frequency,
                    unit |-> intent.unit,
                    source |-> FoundSource(s),
                    last_observation_period |-> points[Len(points)].period,
                    data |-> points],
                OkStatus(points[Len(points)].period))

intent_fetched(s, df) == series_of_points(s, CurIntent(s), parse_series(df, CurIntent(s)))

\* A derived series, when there is one, joins both dicts with an ok status.
Merge(s, id, series) ==
    IF series = NoneRec THEN s
    ELSE [s EXCEPT
            !.series_payload = Put(s.series_payload, id, series),
            !.series_status = Put(s.series_status, id,
                                  OkStatus(series.last_observation_period))]

derive_slope(s) ==
    [Merge(s, "yield_curve_slope", derive_curve_slope(s.series_payload))
        EXCEPT !.pc = "ma"]

MovingAverageOf(s, k) ==
    derive_moving_average(
        IF MovingAverages[k].raw_id \in DOMAIN s.series_payload
        THEN s.series_payload[MovingAverages[k].raw_id] ELSE NoneRec, Window)

RECURSIVE MergeAverages(_, _)
MergeAverages(s, k) ==
    IF k > Len(MovingAverages) THEN s
    ELSE MergeAverages(Merge(s, MovingAverages[k].derived_id, MovingAverageOf(s, k)),
                       k + 1)

derive_averages(s) == [MergeAverages(s, 1) EXCEPT !.pc = "status"]

\* The order of a dict's keys: the intents in loop order, then the derived
\* series in the order they are merged.
KeyOrder ==
    [k \in 1..Len(SERIES_INTENTS) |-> SERIES_INTENTS[k].id]
    \o <<"yield_curve_slope">>
    \o [k \in 1..Len(MovingAverages) |-> MovingAverages[k].derived_id]

\* The length of the status payload's errors list.
MaxErrors == 20

all_ok_ignoring_sources(s) ==
    \A k \in DOMAIN s.series_status : s.series_status[k].ok

\* source_ok and all(v.get("ok") ...)
all_ok(s) ==
    /\ s.source_status.data_gov_sg.ok /\ s.source_status.singstat.ok
    /\ \A k \in DOMAIN s.series_status : s.series_status[k].ok

\* The status payload: its ok flag and its errors.
build_status(s) ==
    LET present == Filter(KeyOrder, DOMAIN s.series_status)
        failing == Filter(present, {k \in DOMAIN s.series_status :
                                       s.series_status[k].error # <<>>})
        errors == [k \in 1..Len(failing) |-> s.series_status[failing[k]].error]
    IN  [s EXCEPT !.pc = "done",
                  !.status = [ok |-> all_ok(s),
                              errors |-> SubSeq(errors, 1,
                                  IF Len(errors) < MaxErrors THEN Len(errors)
                                  ELSE MaxErrors)]]

\* ------------------------------------------------------------------ environment

\* What str(exc) can be: no text at all (an exception raised without a
\* message), a text of exactly the limit and one longer.
ErrorMessages == {[k \in 1..n |-> "x"] : n \in {0, Limit, Limit + 1}}

Pdf == [format |-> Chars("PDF"), url |-> Chars("http://x/r.pdf")]
CsvByFormat == [format |-> Chars("CSV"), url |-> Chars("http://x/r1")]
CsvByUrl == [format |-> None, url |-> Chars("http://x/R2.CSV")]
CsvOther == [format |-> Chars("csv"), url |-> None]

\* Catalog packages.  Scored against query q: PkgPdfOnly has the best title
\* and no CSV resource, PkgYields and PkgOther score by their fixed titles,
\* PkgUntitled scores 0, PkgExact and PkgExactTwin tie at the top.
PkgPdfOnly(q) ==
    [title |-> q, org_title |-> Chars("Monetary Authority of Singapore"),
     metadata_modified |-> Chars("2024-06-01"), resources |-> <<Pdf>>]
PkgYields ==
    [title |-> Chars("SGS Yields"), org_title |-> Chars("Monetary Authority of Singapore"),
     metadata_modified |-> None, resources |-> <<Pdf, CsvByFormat, CsvByUrl>>]
PkgUntitled ==
    [title |-> None, org_title |-> None, metadata_modified |-> None,
     resources |-> <<CsvByUrl>>]
PkgOther ==
    [title |-> Chars("Other"), org_title |-> Chars("Bureau"), metadata_modified |-> <<>>,
     resources |-> <<CsvOther, CsvByFormat>>]
PkgExact(q) ==
    [title |-> q, org_title |-> None, metadata_modified |-> Chars("2024-06-01"),
     resources |-> <<CsvByUrl, CsvByFormat>>]
PkgExactTwin(q) ==
    [title |-> Lower(q), org_title |-> None, metadata_modified |-> Chars("2023-01-01"),
     resources |-> <<CsvByFormat>>]

\* What package_search(q) returns in a run.
CatalogResults(q) == {<<PkgPdfOnly(q)>>, <<PkgPdfOnly(q), PkgYields>>}

\* What package_search(q) returns when resolve_dataset is checked alone.
RichResults(q) ==
    CatalogResults(q)
    \cup {<<>>, <<PkgUntitled, PkgOther>>, <<PkgOther, PkgUntitled>>,
          <<PkgYields, PkgExact(q), PkgExactTwin(q)>>, <<PkgExactTwin(q)>>}

Row(a, b) == <<Chars(a), Chars(b)>>
Row3(a, b, c) == <<Chars(a), Chars(b), Chars(c)>>

\* Tables fetch_csv returns in a run.
DailyYields ==
    [columns |-> <<Chars("Date"), Chars("10-Year"), Chars("2-Year")>>,
     rows |-> <<Row3("2024-01-03", "3", "2"), Row3("2024-01-02", "4", "1"),
                Row3("2024-01-03", "5", "n/a"), <<NaN, Chars("9"), Chars("9")>>>>]
MonthlyYields ==
    [columns |-> <<Chars(" Value "), Chars("End of Month")>>,
     rows |-> <<Row("6", "2024-02"), Row("7", "n/a")>>]
QuarterlyUnits ==
    [columns |-> <<Chars("Quarter"), Chars("Units Sold / Transactions")>>,
     rows |-> <<Row("2024Q3", "30"), Row("2024 Q1", "10"), Row("2024-05-20", "20"),
                Row("2024Q4", "41"), Row("2024-q3", "33"), Row("2024Q4", "-")>>]
AnnualUnits ==
    [columns |-> <<Chars("Year"), Chars("Value")>>,
     rows |-> <<Row("2023", "5"), Row("FY 2022", "4")>>]
Unparseable ==
    [columns |-> <<Chars("a"), Chars("b")>>, rows |-> <<Row("x", "y")>>]

Tables(intent) ==
    IF intent.frequency = "quarterly" THEN {QuarterlyUnits, AnnualUnits, Unparseable}
    ELSE {DailyYields, MonthlyYields, Unparseable}

\* ------------------------------------------------------------------ a run

SearchRaises ==
    /\ run.pc = "search"
    /\ \E msg \in ErrorMessages : run' = search_raises(run, msg)
    /\ UNCHANGED <<twin, varied, call>>

SearchReturns ==
    /\ run.pc = "search"
    /\ \E packages \in CatalogResults(CurQuery(run)) :
           run' = search_returns(run, packages)
    /\ UNCHANGED <<twin, varied, call>>

Found(s) == s.best.pkg # NoneRec /\ s.best.res # NoneRec

NoDatasetMatch ==
    /\ run.pc = "resolved" /\ ~Found(run)
    /\ run' = intent_no_match(run)
    /\ UNCHANGED <<twin, varied, call>>

\* fetch_csv or parse_series raised.
FetchRaises ==
    /\ run.pc = "resolved" /\ Found(run)
    /\ \E msg \in ErrorMessages : run' = intent_failed(run, msg)
    /\ UNCHANGED <<twin, varied, call>>

FetchReturns ==
    /\ run.pc = "resolved" /\ Found(run)
    /\ \E df \in Tables(CurIntent(run)) : run' = intent_fetched(run, df)
    /\ UNCHANGED <<twin, varied, call>>

DeriveSlope ==
    /\ run.pc = "slope"
    /\ run' = derive_slope(run)
    /\ UNCHANGED <<twin, varied, call>>

DeriveAverages ==
    /\ run.pc = "ma"
    /\ run' = derive_averages(run)
    /\ UNCHANGED <<twin, varied, call>>

BuildStatus ==
    /\ run.pc = "status"
    /\ run' = build_status(run)
    /\ UNCHANGED <<twin, varied, call>>

\* No call of parse_series alone.
Idle == [pc |-> "idle"]

Init == run = Start /\ twin = Start /\ varied = 0 /\ call = Idle

Next ==
    \/ SearchRaises
    \/ SearchReturns
    \/ NoDatasetMatch
    \/ FetchRaises
    \/ FetchReturns
    \/ DeriveSlope
    \/ DeriveAverages
    \/ BuildStatus

Spec == Init /\ [][Next]_vars

\* ------------------------------------------------------------------ resolve_dataset alone

\* One call of resolve_dataset, for any intent, on a fetcher whose catalog
\* flag is still true or was already cleared by an earlier call.
InitResolve ==
    /\ \E i \in 1..Len(SERIES_INTENTS) :
       \E ss \in {InitialSourceStatus,
                  [InitialSourceStatus EXCEPT
                      !.data_gov_sg = [ok |-> FALSE, error |-> Chars("timed out")]]} :
           run = start_intent([Start EXCEPT !.source_status = ss], i)
    /\ twin = Start /\ varied = 0 /\ call = Idle

ResolveSearchRaises ==
    /\ run.pc = "search" /\ DOMAIN run.series_status = {}
    /\ \E msg \in ErrorMessages : run' = search_raises(run, msg)
    /\ UNCHANGED <<twin, varied, call>>

ResolveSearchReturns ==
    /\ run.pc = "search" /\ DOMAIN run.series_status = {}
    /\ \E packages \in RichResults(CurQuery(run)) :
           run' = search_returns(run, packages)
    /\ UNCHANGED <<twin, varied, call>>

NextResolve ==
    \/ ResolveSearchRaises
    \/ ResolveSearchReturns

SpecResolve == InitResolve /\ [][NextResolve]_vars

\* ------------------------------------------------------------------ parse_series alone

DateCells == {Chars("2024Q2"), Chars("2024-05-01"), NaN}
ValueCells == {Chars("7"), Chars("12"), Chars("n/a")}

\* The tables of up to MaxRows rows with a date column and a value column,
\* in either order.
ParseTables ==
    LET rowsets == UNION {[1..n -> DateCells \X ValueCells] : n \in 0..MaxRows}
    IN  {[columns |-> <<Chars("Quarter"), Chars("Value")>>, rows |-> rows,
          date_at |-> 1, value_at |-> 2] : rows \in rowsets}
        \cup {[columns |-> <<Chars("Value"), Chars(" Period")>>,
               rows |-> [r \in 1..Len(rows) |-> <<rows[r][2], rows[r][1]>>],
               date_at |-> 2, value_at |-> 1] : rows \in rowsets}

\* One daily and one quarterly intent.
ParseIntents == {Intent_sgs_yield_2y, Intent_private_resi_transactions}

InitParse ==
    /\ run = Start /\ twin = Start /\ varied = 0
    /\ \E t \in ParseTables : \E intent \in ParseIntents :
           call = [pc |-> "call",
                   df |-> [columns |-> t.columns, rows |-> t.rows],
                   date_at |-> t.date_at, value_at |-> t.value_at,
                   intent |-> intent, points |-> <<>>]

ParseSeries ==
    /\ call.pc = "call"
    /\ call' = [call EXCEPT !.pc = "returned",
                            !.points = parse_series(call.df, call.intent)]
    /\ UNCHANGED <<run, twin, varied>>

SpecParse == InitParse /\ [][ParseSeries]_vars

\* ------------------------------------------------------------------ two runs

\* What one catalog search and one fetch can do in the two runs: raise, or
\* return one of two results.
PairMessage == [k \in 1..(Limit + 1) |-> "x"]

SearchOutcomes(q) ==
    {[raised |-> TRUE, msg |-> PairMessage, packages |-> <<>>]}
    \cup {[raised |-> FALSE, msg |-> <<>>, packages |-> p] : p \in CatalogResults(q)}

FetchOutcomes(intent) ==
    {[raised |-> TRUE, msg |-> PairMessage, df |-> Unparseable]}
    \cup {[raised |-> FALSE, msg |-> <<>>, df |-> df] :
             df \in {Unparseable,
                     IF intent.frequency = "quarterly" THEN QuarterlyUnits
                     ELSE DailyYields}}

\* The two runs keep no history of their searches.
Forget(s) == [s EXCEPT !.searched = <<>>]

search_step(s, o) ==
    IF o.raised THEN search_raises(s, o.msg) ELSE search_returns(s, o.packages)

\* The rest of the loop body after resolve_dataset; the fetch only happens,
\* and its outcome only matters, when a dataset was found.
finish_intent(s, o) ==
    IF ~Found(s) THEN intent_no_match(s)
    ELSE IF o.raised THEN intent_failed(s, o.msg)
    ELSE intent_fetched(s, o.df)

\* Two calls of run_fetch whose searches and fetches have the same outcomes
\* except at the intent of index varied.
InitIso ==
    /\ run = Start /\ twin = Start /\ call = Idle
    /\ varied \in 1..Len(SERIES_INTENTS)

Together(pc) ==
    /\ run.pc = pc /\ twin.pc = pc
    /\ run.i = twin.i /\ run.q = twin.q

PairSearch ==
    /\ Together("search")
    /\ \E o1, o2 \in SearchOutcomes(CurQuery(run)) :
           /\ run.i # varied => o1 = o2
           /\ run' = Forget(search_step(run, o1))
           /\ twin' = Forget(search_step(twin, o2))
    /\ UNCHANGED <<varied, call>>

PairFinish ==
    /\ Together("resolved")
    /\ \E o1, o2 \in FetchOutcomes(CurIntent(run)) :
           /\ run.i # varied => o1 = o2
           /\ run' = finish_intent(run, o1)
           /\ twin' = finish_intent(twin, o2)
    /\ UNCHANGED <<varied, call>>

PairSlope ==
    /\ Together("slope")
    /\ run' = derive_slope(run) /\ twin' = derive_slope(twin)
    /\ UNCHANGED <<varied, call>>

PairAverages ==
    /\ Together("ma")
    /\ run' = derive_averages(run) /\ twin' = derive_averages(twin)
    /\ UNCHANGED <<varied, call>>

PairStatus ==
    /\ Together("status")
    /\ run' = build_status(run) /\ twin' = build_status(twin)
    /\ UNCHANGED <<varied, call>>

NextIso ==
    \/ PairSearch
    \/ PairFinish
    \/ PairSlope
    \/ PairAverages
    \/ PairStatus

SpecIso == InitIso /\ [][NextIso]_vars

\* ------------------------------------------------------------------ claims

Series(id) == run.series_payload[id]
Status(id) == run.series_status[id]
Recorded == DOMAIN run.series_status

\* The current intent's searches found no package with a CSV resource.
NoCandidate(s) ==
    \A k \in 1..Len(s.searched) :
        \A j \in 1..Len(s.searched[k].packages) :
            \A r \in 1..Len(s.searched[k].packages[j].resources) :
                ~IsCsv(s.searched[k].packages[j].resources[r])

\* C1: when run_fetch has returned, the series mapping and the series_status
\* mapping both have a key for every configured intent, whatever the
\* outcome of each intent was.
C1_EveryIntentPresent ==
    run.pc = "done" =>
        \A id \in IntentIds :
            id \in DOMAIN run.series_payload /\ id \in DOMAIN run.series_status

\* A finished run with a failed search, an intent without a dataset, an
\* intent whose fetch raised and an intent with points.
C1_Witness ==
    /\ run.pc = "done"
    /\ ~run.source_status.data_gov_sg.ok
    /\ \E a, b, c \in IntentIds :
          /\ Status(a).error = Chars("No dataset match")
          /\ ~Status(b).ok /\ Series(b).note = "Fetch failed"
          /\ Status(c).ok

\* C2: two runs whose outcomes differ only at one intent record the same
\* series and the same status for every other configured intent, and both
\* still process every intent after that one.
C2_FailuresAreIsolated ==
    /\ \A id \in IntentIds \ {SERIES_INTENTS[varied].id} :
          /\ id \in DOMAIN run.series_payload <=> id \in DOMAIN twin.series_payload
          /\ id \in DOMAIN run.series_status <=> id \in DOMAIN twin.series_status
          /\ id \in DOMAIN run.series_payload /\ id \in DOMAIN twin.series_payload
                => run.series_payload[id] = twin.series_payload[id]
          /\ id \in DOMAIN run.series_status /\ id \in DOMAIN twin.series_status
                => run.series_status[id] = twin.series_status[id]
    /\ (run.pc = "done" \/ twin.pc = "done") =>
          /\ IntentIds \subseteq DOMAIN run.series_status
          /\ IntentIds \subseteq DOMAIN twin.series_status

\* Two finished runs: at the first intent one run's fetch raised and the
\* other read its points; every later intent has points in both.
C2_Witness ==
    /\ run.pc = "done" /\ twin.pc = "done"
    /\ varied = 1
    /\ LET x == SERIES_INTENTS[1].id
       IN  /\ ~Status(x).ok /\ Series(x).note = "Fetch failed"
           /\ twin.series_status[x].ok
           /\ \A id \in IntentIds \ {x} : Status(id).ok /\ twin.series_status[id].ok

\* C3: the overall ok flag is true only if every source_status entry and
\* every series_status entry is ok.
C3_OkOnlyIfAllOk ==
    run.pc = "done" =>
        (run.status.ok =>
            /\ run.source_status.data_gov_sg.ok
            /\ run.source_status.singstat.ok
            /\ \A id \in Recorded : Status(id).ok)

\* A finished run where every series is ok, a derived one included, and the
\* only failure is the catalog's reachability flag: the overall flag is false.
C3_Witness ==
    /\ run.pc = "done"
    /\ run.status.ok = FALSE
    /\ ~run.source_status.data_gov_sg.ok
    /\ "yield_curve_slope" \in Recorded
    /\ \A id \in Recorded : Status(id).ok

\* C4: an intent for which no query returned a package with a CSV resource
\* is recorded with no data, no last observation period, a status that is
\* not ok and a non-empty error.
C4_NoMatchIsEmptyAndFailed ==
    [][(run.pc = "resolved" /\ NoCandidate(run)) =>
        LET id == CurIntent(run).id
        IN  /\ id \in DOMAIN run'.series_payload /\ id \in DOMAIN run'.series_status
            /\ run'.series_payload[id].data = <<>>
            /\ run'.series_payload[id].last_observation_period = None
            /\ run'.series_status[id].ok = FALSE
            /\ run'.series_status[id].error # <<>>]_vars

\* An intent recorded without a dataset although one of its searches had
\* failed and another had returned packages.
C4_Witness ==
    /\ ~run.source_status.data_gov_sg.ok
    /\ \E id \in Recorded :
          /\ Status(id).error = Chars("No dataset match")
          /\ Series(id).note = "No matching CSV dataset resource found"

\* C5 as claimed: whenever a dataset and a resource were resolved and the
\* intent is recorded as failed, the series keeps the dataset title and the
\* resource URL.
C5_Original ==
    [][(run.pc = "resolved" /\ Found(run)) =>
        LET id == CurIntent(run).id
        IN  run'.series_status[id].ok = FALSE =>
                /\ run'.series_payload[id].source.dataset_title
                       = OrEmpty(run.best.pkg.title)
                /\ run'.series_payload[id].source.resource_url
                       = OrEmpty(run.best.res.url)]_vars

\* C5 as amended: a resolved intent whose table yields no points keeps the
\* dataset title and the resource URL under the source name data.gov.sg; a
\* resolved intent whose fetch raises is recorded with the "unavailable"
\* source and an empty title and URL.
C5_MetadataKeptOnlyWithoutPoints ==
    [][(run.pc = "resolved" /\ Found(run)) =>
        LET id == CurIntent(run).id
            src == run'.series_payload[id].source
        IN  run'.series_status[id].ok = FALSE =>
                /\ run'.series_payload[id].data = <<>>
                /\ run'.series_payload[id].note
                       = "Resolved dataset but no parseable data points"
                   => /\ src.name = "data.gov.sg"
                      /\ src.dataset_title = OrEmpty(run.best.pkg.title)
                      /\ src.resource_url = OrEmpty(run.best.res.url)
                /\ run'.series_payload[id].note = "Fetch failed"
                   => /\ src.name = "unavailable"
                      /\ src.dataset_title = <<>>
                      /\ src.resource_url = <<>>
                /\ run'.series_payload[id].note
                       \in {"Resolved dataset but no parseable data points",
                            "Fetch failed"}]_vars

\* Both failures of a resolved intent side by side: one series without
\* points that names its dataset, one whose fetch raised.
C5_Witness ==
    \E a, b \in Recorded :
        /\ ~Status(a).ok /\ Series(a).source.name = "data.gov.sg"
        /\ Series(a).source.dataset_title = Chars("SGS Yields")
        /\ Series(a).source.resource_url = Chars("http://x/r1")
        /\ ~Status(b).ok /\ Series(b).note = "Fetch failed"
        /\ Series(b).source.name = "unavailable"

\* C6: every error string recorded from a caught exception, in series_status
\* and in source_status, has at most 220 characters.
C6_ErrorsWithinLimit ==
    /\ Len(run.source_status.data_gov_sg.error) <= 220
    /\ \A id \in Recorded : Len(Status(id).error) <= 220

StrictlyIncreasing(data) ==
    \A k \in 1..(Len(data) - 1) : StrLess(data[k].period, data[k + 1].period)

\* C9: in every series of the data payload, parsed or derived, the periods
\* of the points are pairwise distinct and strictly increasing in string
\* order.
C9_PeriodsStrictlyIncreasing ==
    \A id \in DOMAIN run.series_payload :
        /\ StrictlyIncreasing(Series(id).data)
        /\ \A j, k \in 1..Len(Series(id).data) :
               j # k => Series(id).data[j].period # Series(id).data[k].period

\* A payload with a parsed series of four points read from rows that were
\* out of order and repeated, a spread of two points and a moving average of
\* two points.
C9_Witness ==
    /\ run.pc = "done"
    /\ "yield_curve_slope" \in Recorded
    /\ Len(Series("yield_curve_slope").data) = 2
    /\ "private_resi_transactions_ma3" \in Recorded
    /\ Len(Series("private_resi_transactions_ma3").data) = 2
    /\ Len(Series("private_resi_transactions").data) = 4

\* The packages with a CSV resource that the successful searches returned,
\* each with the query that returned it, in query-then-result order.
RECURSIVE CandidatesOf(_, _)
CandidatesOf(packages, query) ==
    IF packages = <<>> THEN <<>>
    ELSE (IF \E r \in 1..Len(packages[1].resources) : IsCsv(packages[1].resources[r])
          THEN <<[pkg |-> packages[1], query |-> query]>> ELSE <<>>)
         \o CandidatesOf(Tail(packages), query)

RECURSIVE Candidates(_)
Candidates(searched) ==
    IF searched = <<>> THEN <<>>
    ELSE (IF searched[1].raised THEN <<>>
          ELSE CandidatesOf(searched[1].packages, searched[1].query))
         \o Candidates(Tail(searched))

ScoreOf(c) == score_package(c.pkg, c.query)

FirstCsv(pkg) ==
    pkg.resources[CHOOSE a \in 1..Len(pkg.resources) :
                      /\ IsCsv(pkg.resources[a])
                      /\ \A b \in 1..(a - 1) : ~IsCsv(pkg.resources[b])]

\* C7: a catalog search that fails clears source_status["data_gov_sg"].ok
\* and nothing more: no exception reaches the intent boundary, every query of
\* the intent is still issued, in order, and a candidate returned by another
\* query can still be the result.
C7_FailedSearchIsNotFatal ==
    LET queries == CurIntent(run).candidate_queries
    IN  /\ DOMAIN run.series_status = {}
        /\ run.pc \in {"search", "resolved"}
        /\ Len(run.searched) = (IF run.pc = "resolved" THEN Len(queries) ELSE run.q - 1)
        /\ \A k \in 1..Len(run.searched) : run.searched[k].query = queries[k]
        /\ (\E k \in 1..Len(run.searched) : run.searched[k].raised)
               => ~run.source_status.data_gov_sg.ok
        /\ (run.pc = "resolved" /\ Candidates(run.searched) # <<>>) => Found(run)

\* resolve_dataset returned a package although its first and its last search
\* had failed.
C7_Witness ==
    /\ run.pc = "resolved"
    /\ Len(run.searched) = 3
    /\ run.searched[1].raised /\ ~run.searched[2].raised /\ run.searched[3].raised
    /\ Found(run)
    /\ ~run.source_status.data_gov_sg.ok

\* C8: resolve_dataset returns the first candidate of maximal score, with
\* its first CSV resource, and returns nothing exactly when there is no
\* candidate; a candidate of score 0 is returned.
C8_FirstMaximalCandidate ==
    run.pc = "resolved" =>
        LET cands == Candidates(run.searched)
        IN  IF cands = <<>>
            THEN run.best.pkg = NoneRec /\ run.best.res = NoneRec
            ELSE \E k \in 1..Len(cands) :
                    /\ \A j \in 1..Len(cands) : ScoreOf(cands[j]) <= ScoreOf(cands[k])
                    /\ \A j \in 1..(k - 1) : ScoreOf(cands[j]) < ScoreOf(cands[k])
                    /\ run.best.pkg = cands[k].pkg
                    /\ run.best.res = FirstCsv(cands[k].pkg)

\* Candidates from two queries that all score 0: the first one is returned,
\* not a later one.
C8_Witness ==
    /\ run.pc = "resolved"
    /\ LET cands == Candidates(run.searched)
       IN  /\ Len(cands) >= 3
           /\ \A j \in 1..Len(cands) : ScoreOf(cands[j]) = 0
           /\ cands[1].pkg # cands[2].pkg
           /\ cands[1].query # cands[Len(cands)].query
           /\ run.best.pkg = cands[1].pkg

\* The periods and the numbers of the rows of the table of the call.
RowPeriods ==
    [r \in 1..Len(call.df.rows) |->
        normalize_period(call.df.rows[r][call.date_at], call.intent.frequency)]
RowNumbers ==
    [r \in 1..Len(call.df.rows) |-> to_numeric(call.df.rows[r][call.value_at])]

\* C10: parse_series emits one point for each period of the rows that have
\* both a period and a numeric value, and no other point; the point's value
\* is that of the last such row of the period, so a later row of the period
\* without a numeric value changes nothing.
C10_LastSurvivingRowWins ==
    call.pc = "returned" =>
        LET period == RowPeriods
            number == RowNumbers
            surviving == {r \in DOMAIN period : period[r] # None /\ number[r] # <<>>}
            periods == {period[r] : r \in surviving}
        IN  /\ {call.points[k].period : k \in 1..Len(call.points)} = periods
            /\ Len(call.points) = Cardinality(periods)
            /\ \A k \in 1..Len(call.points) :
                   \E r \in surviving :
                       /\ period[r] = call.points[k].period
                       /\ \A r2 \in surviving :
                              period[r2] = call.points[k].period => r2 <= r
                       /\ call.points[k].value = number[r][1]

\* Three rows of one period, written in two ways, valued 7, then 12, then
\* n/a: the one point has the value 12.
C10_Witness ==
    /\ call.pc = "returned"
    /\ Len(call.df.rows) = 3
    /\ call.df.rows[1][call.date_at] # call.df.rows[2][call.date_at]
    /\ RowNumbers = <<<<7>>, <<12>>, <<>>>>
    /\ RowPeriods[3] # None
    /\ call.points = <<[period |-> RowPeriods[3], value |-> 12]>>

\* ------------------------------------------------------------------ derive_curve_slope alone

\* The entries of xs at the indices of S, in order.
Subseq(xs, S) ==
    [k \in 1..Cardinality(S) |->
        xs[CHOOSE i \in S : Cardinality({j \in S : j < i}) = k - 1]]

\* Periods as parse_series emits them, in ascending string order.
SlopePeriods == <<Chars("2024-01-02"), Chars("2024-01-03"), Chars("2024-Q1")>>

\* The point lists a series of series_payload can hold: what parse_series
\* returns, unique ascending periods, of up to MaxRows points.
SlopeData ==
    UNION {{[k \in 1..Cardinality(S) |->
                [period |-> Subseq(SlopePeriods, S)[k], value |-> v[k]]] :
            v \in [1..Cardinality(S) -> {1, 3}]} :
           S \in {T \in SUBSET (1..Len(SlopePeriods)) : Cardinality(T) <= MaxRows}}

\* The entry run_fetch records for an intent with these points.
SeriesWith(intent, data) ==
    IF data = <<>>
    THEN build_empty_series(intent, "No matching CSV dataset resource found")
    ELSE [display_name |-> intent.display_name,
          frequency |-> intent.frequency,
          unit |-> intent.unit,
          source |-> [name |-> "data.gov.sg", dataset_title |-> Chars("SGS Yields"),
                      resource_url |-> Chars("http://x/r1")],
          last_observation_period |-> data[Len(data)].period,
          data |-> data]

\* One call of derive_curve_slope, on any series_payload holding some of the
\* three yield series.
InitSlope ==
    /\ run = Start /\ twin = Start /\ varied = 0
    /\ \E present \in SUBSET {Intent_sgs_yield_10y, Intent_sgs_yield_2y,
                              Intent_sgs_yield_1y} :
       \E data \in [{intent.id : intent \in present} -> SlopeData] :
           call = [pc |-> "call",
                   series_map |-> [id \in DOMAIN data |->
                                      SeriesWith(CHOOSE intent \in present : intent.id = id,
                                                 data[id])],
                   slope |-> NoneRec]

DeriveCurveSlope ==
    /\ call.pc = "call"
    /\ call' = [call EXCEPT !.pc = "returned",
                            !.slope = derive_curve_slope(call.series_map)]
    /\ UNCHANGED <<run, twin, varied>>

SpecSlope == InitSlope /\ [][DeriveCurveSlope]_vars

\* The points of a yield series in the call, none when the series is absent.
PointsOf(id) ==
    IF id \in DOMAIN call.series_map THEN call.series_map[id].data ELSE <<>>

\* The value a list of points gives period p.
ValueAt(data, p) == (CHOOSE k \in 1..Len(data) : data[k].period = p)

SharedPeriods(a, b) ==
    {a[k].period : k \in 1..Len(a)} \cap {b[k].period : k \in 1..Len(b)}

\* C11: derive_curve_slope takes the 2-year series as base when it has
\* points, else the 1-year series; with a 10-year series and a base that share
\* a period it returns one point (p, ten[p] - base[p]) for each shared period,
\* ascending, named after the base used; otherwise it returns nothing, also
\* when the 1-year series would share a period and the 2-year base does not.
C11_SlopeIsInnerJoinOnBase ==
    call.pc = "returned" =>
        LET ten == PointsOf("sgs_yield_10y")
            two == PointsOf("sgs_yield_2y")
            one == PointsOf("sgs_yield_1y")
            base == IF two # <<>> THEN two ELSE one
            shared == SharedPeriods(ten, base)
            out == call.slope
        IN  IF ten = <<>> \/ base = <<>> \/ shared = {}
            THEN out = NoneRec
            ELSE /\ out # NoneRec
                 /\ Len(out.data) = Cardinality(shared)
                 /\ StrictlyIncreasing(out.data)
                 /\ \A k \in 1..Len(out.data) :
                        /\ out.data[k].period \in shared
                        /\ out.data[k].value =
                               ten[ValueAt(ten, out.data[k].period)].value
                               - base[ValueAt(base, out.data[k].period)].value
                 /\ out.last_observation_period = out.data[Len(out.data)].period
                 /\ out.display_name =
                        (IF two # <<>> THEN "Yield Curve Slope (10Y-2Y)"
                         ELSE "Yield Curve Slope (10Y-1Y)")

\* A call whose 10-year series has a period the 2-year base lacks: the
\* spread has fewer points than the 10-year series.
C11_Witness ==
    /\ call.pc = "returned"
    /\ PointsOf("sgs_yield_2y") # <<>>
    /\ call.slope # NoneRec
    /\ Len(call.slope.data) < Len(PointsOf("sgs_yield_10y"))
    /\ Len(call.slope.data) < Len(PointsOf("sgs_yield_2y"))

\* ------------------------------------------------------------------ derive_moving_average alone

\* The k-th period of a quarterly series: 2021-Q1, 2022-Q1, ...
AveragePeriod(k) == IntStr(2020 + k) \o Chars("-Q1")

\* The point lists of up to MaxPoints points, periods ascending.
AverageData ==
    UNION {{[k \in 1..n |-> [period |-> AveragePeriod(k), value |-> v[k]]] :
            v \in [1..n -> {1, 2, 4}]} : n \in 0..MaxPoints}

\* One call of derive_moving_average with run_fetch's window, on the entry
\* of a raw series or on the {} of a missing one.
InitAverage ==
    /\ run = Start /\ twin = Start /\ varied = 0
    /\ \E series_obj \in {NoneRec} \cup {SeriesWith(intent, data) :
                                            intent \in {Intent_private_resi_transactions,
                                                        Intent_dev_sales_uncompleted_sold},
                                            data \in AverageData} :
           call = [pc |-> "call", series_obj |-> series_obj, derived |-> NoneRec]

DeriveMovingAverage ==
    /\ call.pc = "call"
    /\ call' = [call EXCEPT !.pc = "returned",
                            !.derived = derive_moving_average(call.series_obj, Window)]
    /\ UNCHANGED <<run, twin, varied>>

SpecAverage == InitAverage /\ [][DeriveMovingAverage]_vars

\* The points of the series the call was given.
SourcePoints == IF call.series_obj = NoneRec THEN <<>> ELSE call.series_obj.data

\* C12: with window 3, derive_moving_average returns nothing for fewer than
\* 3 points; for n >= 3 points it returns n - 2 points, the k-th with the
\* period of source point k + 2 and the mean of source values k, k + 1, k + 2.
C12_TrailingMeanOfThree ==
    call.pc = "returned" =>
        LET src == SourcePoints
            out == call.derived
        IN  IF Len(src) < 3 THEN out = NoneRec
            ELSE /\ out # NoneRec
                 /\ Len(out.data) = Len(src) - 2
                 /\ \A k \in 1..Len(out.data) :
                        /\ out.data[k].period = src[k + 2].period
                        /\ out.data[k].value.den > 0
                        /\ out.data[k].value.num * 3 =
                               out.data[k].value.den
                               * (src[k].value + src[k + 1].value + src[k + 2].value)

\* A series of four points whose averages are not whole numbers.
C12_Witness ==
    /\ call.pc = "returned"
    /\ Len(SourcePoints) = 4
    /\ call.derived # NoneRec
    /\ Len(call.derived.data) = 2
    /\ call.derived.data[1].value.den = 3
    /\ call.derived.data[1].value # call.derived.data[2].value

\* ------------------------------------------------------------------ normalize_period alone

\* What a cell can hold before and after the text 2024Q3.
TextsBefore ==
    {Chars(""), Chars(" "), Chars("1"), Chars("FY"), Chars("as of "), Chars("2023-12-31 "),
     Chars("1999 4Q "), Chars("1999Q1 "), Chars("2023 q4-"), Chars("x1999-Q"),
     Chars("Q 12")}
TextsAfter ==
    {Chars(""), Chars(" "), Chars("1"), Chars("-01"), Chars(" 2025Q1"), Chars("Q4"),
     Chars(" (prelim)")}

\* One call of normalize_period with frequency quarterly on a cell that
\* contains 2024Q3.
InitNormalize ==
    /\ run = Start /\ twin = Start /\ varied = 0
    /\ \E before \in TextsBefore : \E after \in TextsAfter :
           call = [pc |-> "call", before |-> before, after |-> after,
                   value |-> before \o Chars("2024Q3") \o after,
                   frequency |-> "quarterly", period |-> None]

NormalizePeriod ==
    /\ call.pc = "call"
    /\ call' = [call EXCEPT !.pc = "returned",
                            !.period = normalize_period(call.value, call.frequency)]
    /\ UNCHANGED <<run, twin, varied>>

SpecNormalize == InitNormalize /\ [][NormalizePeriod]_vars

HasQ(text) == \E k \in 1..Len(text) : text[k] \in {"Q", "q"}

ColumnNames ==
    {Chars("Date"), Chars(" Period "), Chars("SORA (%)"), Chars("Interest Rate"),
     Chars("Rate (SORA)")}
Hints == {Chars("date"), Chars("period"), Chars("sora"), Chars("rate")}

\* The lists of up to n distinct members of S.
DistinctLists(S, n) ==
    UNION {{xs \in [1..m -> S] : \A a, b \in 1..m : xs[a] = xs[b] => a = b} : m \in 0..n}

\* One call of choose_column.
InitChoose ==
    /\ run = Start /\ twin = Start /\ varied = 0
    /\ \E columns \in DistinctLists(ColumnNames, MaxColumns) :
       \E candidates \in DistinctLists(Hints, MaxHints) :
           call = [pc |-> "call", columns |-> columns, candidates |-> candidates,
                   column |-> None]

ChooseColumn ==
    /\ call.pc = "call"
    /\ call' = [call EXCEPT !.pc = "returned",
                            !.column = choose_column(call.columns, call.candidates)]
    /\ UNCHANGED <<run, twin, varied>>

SpecChoose == InitChoose /\ [][ChooseColumn]_vars

\* Column k of the call matches hint j: its lowercased, trimmed name equals
\* or contains the hint.
Matches(k, j) ==
    \/ Strip(Lower(call.columns[k])) = call.candidates[j]
    \/ Contains(call.candidates[j], Strip(Lower(call.columns[k])))

MatchingHints == {j \in 1..Len(call.candidates) : \E k \in 1..Len(call.columns) : Matches(k, j)}

Least(S) == CHOOSE a \in S : \A b \in S : a <= b

\* C14: choose_column returns, for the earliest hint that matches any
\* column, the first column in declaration order that matches it, and absent
\* when no hint matches a column.
C14_EarliestHintThenFirstColumn ==
    call.pc = "returned" =>
        IF MatchingHints = {} THEN call.column = None
        ELSE call.column =
                 call.columns[Least({k \in 1..Len(call.columns) :
                                        Matches(k, Least(MatchingHints))})]

\* The second hint matches the first column and the first hint a later
\* one: the later column is returned.
C14_Witness ==
    /\ call.pc = "returned"
    /\ Len(call.candidates) = 2 /\ Len(call.columns) >= 2
    /\ Matches(1, 2) /\ ~Matches(1, 1)
    /\ Matches(2, 1)
    /\ call.column = call.columns[2]

\* ------------------------------------------------------------------ status against series

\* C15: when run_fetch ends, series and series_status have the same keys and,
\* for every key, ok is true exactly when the series has points, the error is
\* empty exactly when ok is true, and last_period equals the series'
\* last_observation_period, the period of its last point or null without
\* points.
C15_StatusMirrorsSeries ==
    run.pc = "done" =>
        /\ DOMAIN run.series_payload = DOMAIN run.series_status
        /\ \A k \in DOMAIN run.series_status :
               LET series == run.series_payload[k]
                   status == run.series_status[k]
               IN  /\ status.ok <=> series.data # <<>>
                   /\ status.error = <<>> <=> status.ok
                   /\ status.last_period = series.last_observation_period
                   /\ series.last_observation_period =
                          (IF series.data = <<>> THEN None
                           ELSE series.data[Len(series.data)].period)

\* ------------------------------------------------------------------ the catalog flag

CatalogOk(s) == s.source_status.data_gov_sg.ok

\* The step is a catalog search that raised.
SearchFailedStep ==
    /\ run.pc = "search"
    /\ Len(run'.searched) = Len(run.searched) + 1
    /\ run'.searched[Len(run'.searched)].raised

\* C16: within one run the flag source_status['data_gov_sg'].ok starts true,
\* turns false at a failed catalog search and at no other step, never turns
\* true again, and a run that ends with the flag false ends with overall ok
\* false.
C16_CatalogFlagOnlyFalls ==
    /\ CatalogOk(run)
    /\ [][/\ SearchFailedStep => ~CatalogOk(run')
          /\ ~SearchFailedStep => (CatalogOk(run') <=> CatalogOk(run))
          /\ ~CatalogOk(run) => ~CatalogOk(run')
          /\ (run'.pc = "done" /\ ~CatalogOk(run')) => ~run'.status.ok]_vars

\* A finished run in which a search failed, later searches succeeded and
\* every series has an ok status: the overall ok is false.
C16_Witness ==
    /\ run.pc = "done"
    /\ ~CatalogOk(run)
    /\ \A k \in DOMAIN run.series_status : run.series_status[k].ok
    /\ IntentIds \subseteq DOMAIN run.series_status
    /\ ~run.status.ok

====
